---------------------------- MODULE Spec2Model ----------------------------
(***************************************************************************)
(* A model of src/app/page.tsx: the Puter.js chat page.                    *)
(*                                                                         *)
(*   - JavaScript values (the untyped gateway reply and what is read out   *)
(*     of it) are tagged records; strings are TLA+ strings, taken apart    *)
(*     character by character with SubSeq.                                 *)
(*   - JSON.parse and JSON.stringify are a recursive-descent parser and a  *)
(*     serializer over those values.                                       *)
(*   - extractTextFromResponse, callPuterChat, getMockResponse and         *)
(*     handleSubmit are translated from the source, as are the three       *)
(*     callbacks of the script-loading effect.                             *)
(*   - One action is one run of a callback on the event loop: a handler    *)
(*     up to its await, or the continuation after it.                      *)
(***************************************************************************)
EXTENDS Integers, Sequences, FiniteSets, TLC

VARIABLES
    scriptStatus,   \* useState "loading" | "loaded" | "error"           (l.32)
    errorMessage,   \* useState string | null, as a JS value             (l.33)
    puterRef,       \* useRef: the shape of puterRef.current             (l.34)
    messages,       \* useState Message[]                                (l.30)
    isLoading,      \* useState boolean                                  (l.31)
    prompt,         \* useState string, the textarea's text              (l.29)
    scriptPending,  \* the <script> element has fired neither load nor error
    timerArmed,     \* the 10 s setTimeout is neither fired nor cleared
    calls,          \* handleSubmit invocations suspended at their await
    chatCalls,      \* history: puter.ai.chat invocations issued so far
    submissions,    \* history: submissions handleSubmit accepted so far
    outcome,        \* history: what became of the latest submit event
                    \*   "none", "ignored", "sending", "delivered",
                    \*   "unavailable" (mock, gateway not used), "threw"
    response,       \* normalizer harness: the raw reply under test
    extracted       \* normalizer harness: successive results of the normalizer

vars == << scriptStatus, errorMessage, puterRef, messages, isLoading, prompt,
           scriptPending, timerArmed, calls, chatCalls, submissions, outcome,
           response, extracted >>

-----------------------------------------------------------------------------
(* Bounds of the model.                                                    *)

\* Submissions are accepted while the conversation holds fewer messages.
MaxMessages == 5
\* Longest array of items in a generated reply.
MaxItems == 1

-----------------------------------------------------------------------------
(* JavaScript values.  Every value is a record with the same four fields:  *)
(*   t      the kind of value                                              *)
(*   s      the text of a string, number or boolean; for an object with a  *)
(*          custom toString(), the string that method returns              *)
(*   keys   an object's own property names, in insertion order             *)
(*   items  an array's elements, or an object's property values (parallel  *)
(*          to keys)                                                       *)

JUndefined == [t |-> "undefined", s |-> "", keys |-> <<>>, items |-> <<>>]
JNull == [t |-> "null", s |-> "", keys |-> <<>>, items |-> <<>>]
JStr(str) == [t |-> "string", s |-> str, keys |-> <<>>, items |-> <<>>]
JNum(digits) == [t |-> "number", s |-> digits, keys |-> <<>>, items |-> <<>>]
JBool(b) == [t |-> "boolean", s |-> IF b THEN "true" ELSE "false",
             keys |-> <<>>, items |-> <<>>]
JArr(elems) == [t |-> "array", s |-> "", keys |-> <<>>, items |-> elems]
JObj(ks, vs) == [t |-> "object", s |-> "", keys |-> ks, items |-> vs]
\* An object whose toString is not Object.prototype.toString and returns str.
JCustom(ks, vs, str) == [t |-> "custom", s |-> str, keys |-> ks, items |-> vs]

\* typeof v
TypeOf(v) ==
    CASE v.t = "undefined" -> "undefined"
      [] v.t = "string" -> "string"
      [] v.t = "number" -> "number"
      [] v.t = "boolean" -> "boolean"
      [] OTHER -> "object"

\* Array.isArray(v)
IsArray(v) == v.t = "array"

\* Boolean(v): undefined, null, "", 0 and false are falsy.
Truthy(v) ==
    CASE v.t \in {"undefined", "null"} -> FALSE
      [] v.t = "string" -> v.s # ""
      [] v.t = "number" -> v.s \notin {"0", "-0"}
      [] v.t = "boolean" -> v.s = "true"
      [] OTHER -> TRUE

\* v === undefined || v === null, the test behind the ?. operator
Nullish(v) == v.t \in {"undefined", "null"}

\* k in v, for a v that is an object
HasProp(v, k) ==
    /\ v.t \in {"object", "custom"}
    /\ \E n \in 1..Len(v.keys) : v.keys[n] = k

\* v.k for a v that is neither null nor undefined
Get(v, k) ==
    IF HasProp(v, k)
    THEN v.items[CHOOSE n \in 1..Len(v.keys) : v.keys[n] = k]
    ELSE JUndefined

\* v?.k
OptGet(v, k) == IF Nullish(v) THEN JUndefined ELSE Get(v, k)

\* obj[k] = val on a parsed object: a repeated key keeps its place
SetProp(ks, vs, k, val) ==
    IF \E n \in 1..Len(ks) : ks[n] = k
    THEN LET n == CHOOSE m \in 1..Len(ks) : ks[m] = k
         IN  [keys |-> ks, items |-> [vs EXCEPT ![n] = val]]
    ELSE [keys |-> Append(ks, k), items |-> Append(vs, val)]

-----------------------------------------------------------------------------
(* Strings.                                                                *)

\* The character at position i of str (1-based), "" past its end.
CharAt(str, i) == IF i >= 1 /\ i <= Len(str) THEN SubSeq(str, i, i) ELSE ""

\* str.startsWith(sub, i - 1)
StartsAt(str, i, sub) ==
    /\ i + Len(sub) - 1 <= Len(str)
    /\ SubSeq(str, i, i + Len(sub) - 1) = sub

\* Whether sub occurs in str
Occurs[str \in STRING, sub \in STRING] ==
    \E i \in 1..(Len(str) + 1) : StartsAt(str, i, sub)

\* str.includes(sub)
Includes(str, sub) == Occurs[str, sub]

UpperCase == << "A", "B", "C", "D", "E", "F", "G", "H", "I", "J", "K", "L", "M",
                "N", "O", "P", "Q", "R", "S", "T", "U", "V", "W", "X", "Y", "Z" >>
LowerCase == << "a", "b", "c", "d", "e", "f", "g", "h", "i", "j", "k", "l", "m",
                "n", "o", "p", "q", "r", "s", "t", "u", "v", "w", "x", "y", "z" >>

\* The lower-case form of the character c
LowerChar[c \in STRING] ==
    IF \E n \in 1..26 : UpperCase[n] = c
    THEN LowerCase[CHOOSE n \in 1..26 : UpperCase[n] = c]
    ELSE c

\* The characters of str from position i on, in lower case
LowerFrom[str \in STRING, i \in Nat] ==
    IF i > Len(str) THEN ""
    ELSE LowerChar[CharAt(str, i)] \o LowerFrom[str, i + 1]

\* str.toLowerCase()
ToLowerCase(str) == LowerFrom[str, 1]

WhiteSpace == {" ", "\n", "\t", "\r"}

RECURSIVE TrimStart(_, _)
\* The first position from i on that holds no white space
TrimStart(str, i) ==
    IF CharAt(str, i) \in WhiteSpace THEN TrimStart(str, i + 1) ELSE i

RECURSIVE TrimEnd(_, _)
\* The last position up to i that holds no white space
TrimEnd(str, i) ==
    IF CharAt(str, i) \in WhiteSpace THEN TrimEnd(str, i - 1) ELSE i

\* str.trim()
Trim(str) == SubSeq(str, TrimStart(str, 1), TrimEnd(str, Len(str)))

RECURSIVE JoinStrings(_, _)
\* strs.join(sep), for an array of strings
JoinStrings(strs, sep) ==
    IF Len(strs) = 0 THEN ""
    ELSE IF Len(strs) = 1 THEN strs[1]
    ELSE strs[1] \o sep \o JoinStrings(Tail(strs), sep)

RECURSIVE ToStringJS(_)
\* String(v), the conversion Array.prototype.join and toString() apply
ToStringJS(v) ==
    CASE v.t \in {"string", "number", "boolean", "custom"} -> v.s
      [] v.t = "undefined" -> "undefined"
      [] v.t = "null" -> "null"
      [] v.t = "array" ->
            JoinStrings([n \in 1..Len(v.items) |->
                            IF Nullish(v.items[n]) THEN ""
                            ELSE ToStringJS(v.items[n])], ",")
      [] OTHER -> "[object Object]"

-----------------------------------------------------------------------------
(* JSON.stringify.                                                         *)

RECURSIVE EscapeFrom(_, _)
\* The body of a JSON string literal for the characters of str from
\* position i on: ", \ and the newline are escaped.
EscapeFrom(str, i) ==
    IF i > Len(str) THEN ""
    ELSE LET c == CharAt(str, i)
             e == CASE c = "\"" -> "\\\""
                    [] c = "\\" -> "\\\\"
                    [] c = "\n" -> "\\n"
                    [] OTHER -> c
         IN  e \o EscapeFrom(str, i + 1)

Quote(str) == "\"" \o EscapeFrom(str, 1) \o "\""

RECURSIVE Stringify(_)
\* JSON.stringify(v) for a v that is not undefined.  Inside an array an
\* undefined element is written null; a custom toString is not serialized.
Stringify(v) ==
    CASE v.t = "string" -> Quote(v.s)
      [] v.t \in {"number", "boolean"} -> v.s
      [] v.t \in {"null", "undefined"} -> "null"
      [] v.t = "array" ->
            "[" \o JoinStrings([n \in 1..Len(v.items) |-> Stringify(v.items[n])],
                               ",") \o "]"
      [] OTHER ->
            "{" \o JoinStrings([n \in 1..Len(v.keys) |->
                                   Quote(v.keys[n]) \o ":" \o Stringify(v.items[n])],
                               ",") \o "}"

-----------------------------------------------------------------------------
(* JSON.parse: a recursive-descent parser.  A parse step returns           *)
(* [ok, v, i]: whether it succeeded, the value read, and the position of   *)
(* the first character after it.  Numbers are integer literals; a literal  *)
(* with a fraction or an exponent is rejected, which extractTextFromResponse*)
(* cannot tell from a parsed number (both return the string unchanged).    *)

ParseFail == [ok |-> FALSE, v |-> JUndefined, i |-> 0]
ParseOk(val, next) == [ok |-> TRUE, v |-> val, i |-> next]

Digits == {"0", "1", "2", "3", "4", "5", "6", "7", "8", "9"}

RECURSIVE SkipWs(_, _)
SkipWs(str, i) == IF CharAt(str, i) \in WhiteSpace THEN SkipWs(str, i + 1) ELSE i

RECURSIVE ParseString(_, _, _)
\* The rest of a string literal whose opening quote has been read.
ParseString(str, i, acc) ==
    LET c == CharAt(str, i)
    IN  CASE c = "" -> ParseFail
          [] c = "\"" -> ParseOk(JStr(acc), i + 1)
          [] c \in {"\n", "\t", "\r"} -> ParseFail
          [] c = "\\" ->
                LET e == CharAt(str, i + 1)
                IN  CASE e \in {"\"", "\\", "/"} -> ParseString(str, i + 2, acc \o e)
                      [] e = "n" -> ParseString(str, i + 2, acc \o "\n")
                      [] e = "t" -> ParseString(str, i + 2, acc \o "\t")
                      [] e = "r" -> ParseString(str, i + 2, acc \o "\r")
                      [] OTHER -> ParseFail
          [] OTHER -> ParseString(str, i + 1, acc \o c)

RECURSIVE ParseDigits(_, _)
\* The position after the run of digits that starts at i.
ParseDigits(str, i) ==
    IF CharAt(str, i) \in Digits THEN ParseDigits(str, i + 1) ELSE i

ParseNumber(str, i) ==
    LET d == IF CharAt(str, i) = "-" THEN i + 1 ELSE i
        e == ParseDigits(str, d)
    IN  IF e = d THEN ParseFail
        ELSE IF CharAt(str, d) = "0" /\ e > d + 1 THEN ParseFail
        ELSE IF CharAt(str, e) \in {".", "e", "E"} THEN ParseFail
        ELSE ParseOk(JNum(SubSeq(str, i, e - 1)), e)

RECURSIVE ParseValue(_, _)
RECURSIVE ParseElements(_, _, _)
RECURSIVE ParseMembers(_, _, _, _)

ParseValue(str, i) ==
    LET c == CharAt(str, i)
    IN  CASE c = "\"" -> ParseString(str, i + 1, "")
          [] c = "[" ->
                LET j == SkipWs(str, i + 1)
                IN  IF CharAt(str, j) = "]" THEN ParseOk(JArr(<<>>), j + 1)
                    ELSE ParseElements(str, j, <<>>)
          [] c = "{" ->
                LET j == SkipWs(str, i + 1)
                IN  IF CharAt(str, j) = "}" THEN ParseOk(JObj(<<>>, <<>>), j + 1)
                    ELSE ParseMembers(str, j, <<>>, <<>>)
          [] c \in Digits \cup {"-"} -> ParseNumber(str, i)
          [] StartsAt(str, i, "null") -> ParseOk(JNull, i + 4)
          [] StartsAt(str, i, "true") -> ParseOk(JBool(TRUE), i + 4)
          [] StartsAt(str, i, "false") -> ParseOk(JBool(FALSE), i + 5)
          [] OTHER -> ParseFail

\* The elements of an array from position i on, acc being those read so far.
ParseElements(str, i, acc) ==
    LET r == ParseValue(str, i)
        j == SkipWs(str, r.i)
    IN  IF ~r.ok THEN ParseFail
        ELSE CASE CharAt(str, j) = "]" -> ParseOk(JArr(Append(acc, r.v)), j + 1)
               [] CharAt(str, j) = "," ->
                     ParseElements(str, SkipWs(str, j + 1), Append(acc, r.v))
               [] OTHER -> ParseFail

\* The members of an object from position i on.
ParseMembers(str, i, ks, vs) ==
    IF CharAt(str, i) # "\"" THEN ParseFail
    ELSE LET k == ParseString(str, i + 1, "")
             c == SkipWs(str, k.i)
             r == ParseValue(str, SkipWs(str, c + 1))
             j == SkipWs(str, r.i)
             o == SetProp(ks, vs, k.v.s, r.v)
         IN  IF ~k.ok \/ CharAt(str, c) # ":" THEN ParseFail
             ELSE IF ~r.ok THEN ParseFail
             ELSE CASE CharAt(str, j) = "}" ->
                          ParseOk(JObj(o.keys, o.items), j + 1)
                    [] CharAt(str, j) = "," ->
                          ParseMembers(str, SkipWs(str, j + 1), o.keys, o.items)
                    [] OTHER -> ParseFail

\* JSON.parse(str): ok is FALSE where JSON.parse throws a SyntaxError.
JSONParse(str) ==
    LET r == ParseValue(str, SkipWs(str, 1))
    IN  IF r.ok /\ SkipWs(str, r.i) = Len(str) + 1 THEN r ELSE ParseFail

-----------------------------------------------------------------------------
(* extractTextFromResponse (l.96-197).  debugMode only logs and is left    *)
(* out.  The result is whatever the code returns, which need not be a      *)
(* string: item.text, parsed.text and response.text are returned as found. *)

\* The callback of .map (l.109-114, 139-144, 170-175)
ItemText(item) ==
    IF Truthy(item) /\ TypeOf(item) = "object" /\ HasProp(item, "text")
    THEN Get(item, "text")
    ELSE JStr("")

\* The elements of elems that Boolean() keeps, in order
RECURSIVE FilterBoolean(_)
FilterBoolean(elems) ==
    IF Len(elems) = 0 THEN <<>>
    ELSE IF Truthy(elems[1]) THEN <<elems[1]>> \o FilterBoolean(Tail(elems))
    ELSE FilterBoolean(Tail(elems))

\* items.map(...).filter(Boolean).join("\n")
ExtractItems(elems) ==
    LET kept == FilterBoolean([n \in 1..Len(elems) |-> ItemText(elems[n])])
    IN  JStr(JoinStrings([n \in 1..Len(kept) |-> ToStringJS(kept[n])], "\n"))

\* ExtractFromString with l.127 returning the parsed value instead of the
\* string it was parsed from
ExtractFromStringParsed(resp) ==
    LET parsed == JSONParse(resp.s)
    IN  IF ~parsed.ok THEN resp
        ELSE IF Truthy(parsed.v) /\ IsArray(parsed.v)
             THEN ExtractItems(parsed.v.items)
        ELSE IF Truthy(parsed.v) /\ TypeOf(parsed.v) = "object"
                /\ HasProp(parsed.v, "text")
             THEN Get(parsed.v, "text")
        ELSE JStr(ToStringJS(parsed.v))

\* l.102-128: the reply is a string
ExtractFromString(resp) ==
    LET parsed == JSONParse(resp.s)
    IN  IF ~parsed.ok THEN resp
        ELSE IF Truthy(parsed.v) /\ IsArray(parsed.v)
             THEN ExtractItems(parsed.v.items)
        ELSE IF Truthy(parsed.v) /\ TypeOf(parsed.v) = "object"
                /\ HasProp(parsed.v, "text")
             THEN Get(parsed.v, "text")
        ELSE resp

\* typeof v.toString === "function" && v.toString !== Object.prototype.toString
HasCustomToString(v) == v.t \in {"number", "boolean", "custom"}

\* ExtractFromObject with the checks of l.150 and l.154 in the other order
ExtractFromObjectTextFirst(resp) ==
    LET message == Get(resp, "message")
        messageContent == OptGet(message, "content")
    IN  IF Truthy(Get(resp, "text")) THEN Get(resp, "text")
        ELSE IF Truthy(OptGet(messageContent, "text"))
             THEN Get(messageContent, "text")
        ELSE IF Truthy(Get(resp, "content"))
             THEN IF TypeOf(Get(resp, "content")) = "string"
                  THEN Get(resp, "content")
                  ELSE JStr(Stringify(Get(resp, "content")))
        ELSE IF Truthy(messageContent)
             THEN IF TypeOf(messageContent) = "string" THEN messageContent
                  ELSE IF IsArray(messageContent)
                       THEN ExtractItems(messageContent.items)
                  ELSE JStr(Stringify(messageContent))
        ELSE IF HasCustomToString(resp) /\ ToStringJS(resp) # "[object Object]"
             THEN JStr(ToStringJS(resp))
        ELSE JStr(Stringify(resp))

\* l.149-192: the reply is truthy and neither a string nor an array
ExtractFromObject(resp) ==
    LET message == Get(resp, "message")
        messageContent == OptGet(message, "content")
    IN  IF Truthy(OptGet(messageContent, "text"))
        THEN Get(messageContent, "text")
        ELSE IF Truthy(Get(resp, "text")) THEN Get(resp, "text")
        ELSE IF Truthy(Get(resp, "content"))
             THEN IF TypeOf(Get(resp, "content")) = "string"
                  THEN Get(resp, "content")
                  ELSE JStr(Stringify(Get(resp, "content")))
        ELSE IF Truthy(messageContent)
             THEN IF TypeOf(messageContent) = "string" THEN messageContent
                  ELSE IF IsArray(messageContent)
                       THEN ExtractItems(messageContent.items)
                  ELSE JStr(Stringify(messageContent))
        ELSE IF HasCustomToString(resp) /\ ToStringJS(resp) # "[object Object]"
             THEN JStr(ToStringJS(resp))
        ELSE JStr(Stringify(resp))

extractTextFromResponse(resp) ==
    IF TypeOf(resp) = "string" THEN ExtractFromString(resp)
    ELSE IF ~Truthy(resp) THEN JStr("No response received")
    ELSE IF IsArray(resp) THEN ExtractItems(resp.items)
    ELSE ExtractFromObject(resp)

-----------------------------------------------------------------------------
(* getMockResponse (l.239-249).                                            *)

MockGreeting ==
    "Hello! I'm a mock AI assistant. Puter.js isn't working correctly, but I can still chat with you in a limited way."
MockHelp ==
    "I'm currently running in mock mode because Puter.js isn't working correctly. Try checking the console for more information about the error."
MockGeneric ==
    "I'm a mock AI assistant. The Puter.js API seems to be unavailable or has changed. This is a fallback response."

getMockResponse(p) ==
    IF Includes(ToLowerCase(p), "hello") \/ Includes(ToLowerCase(p), "hi")
    THEN JStr(MockGreeting)
    ELSE IF Includes(ToLowerCase(p), "help") THEN JStr(MockHelp)
    ELSE JStr(MockGeneric)

-----------------------------------------------------------------------------
(* callPuterChat (l.200-236).  puterRef.current is one of four shapes:     *)
(*   "null"    nothing stored (the initial useRef value)                   *)
(*   "noAi"    an object without an ai property                            *)
(*   "noChat"  an object whose ai.chat is not a function                   *)
(*   "full"    an object whose ai.chat is a function                       *)

PuterShapes == {"noAi", "noChat", "full"}
\* puterRef.current?.ai is truthy
HasAi(ref) == ref \in {"noChat", "full"}
\* typeof puterRef.current.ai.chat === "function"
HasChat(ref) == ref = "full"

AdvisoryNoAi ==
    "Sorry, the AI service is not available. This might be due to Puter.js API changes."
AdvisoryNoChat ==
    "Sorry, the chat method is not available in this version of Puter.js."

\* What callPuterChat does before its first suspension: it throws, returns
\* a string, or issues puter.ai.chat and awaits it.
callPuterChat(ref) ==
    IF ref = "null"
    THEN [kind |-> "throws", value |-> JStr("Puter.js is not loaded")]
    ELSE IF ~HasAi(ref) THEN [kind |-> "returns", value |-> JStr(AdvisoryNoAi)]
    ELSE IF ~HasChat(ref)
         THEN [kind |-> "returns", value |-> JStr(AdvisoryNoChat)]
    ELSE [kind |-> "awaitsChat", value |-> JUndefined]

-----------------------------------------------------------------------------
(* The component's state and its event handlers.                           *)

WelcomeMessage ==
    [role |-> "system",
     content |-> JStr("Welcome! Select an AI model and start chatting. The models are powered by Puter.js.")]
TimeoutError ==
    JStr("Puter.js script loading timed out. Please check your connection and try again.")
NoPuterError == JStr("Puter.js loaded but the puter object is not available.")
LoadError ==
    JStr("Failed to load Puter.js script. Please check your connection and try again.")

\* What the user may type.
Prompts == {" ", "hi", "need HELP", "test"}

\* What puter.ai.chat may resolve to.
GatewayReplies ==
    { JStr("Sure."),
      JNull,
      JArr(<<>>),
      JObj(<<"text">>, <<JNum("5")>>),
      JObj(<<"message">>, <<JObj(<<"content">>, <<JStr("Done.")>>)>>) }

\* What window.puter may be when the script's load event fires.
WindowPuter == {"absent"} \cup PuterShapes

Init ==
    /\ scriptStatus = "loading"
    /\ errorMessage = JNull
    /\ puterRef = "null"
    /\ messages = <<>>
    /\ isLoading = FALSE
    /\ prompt = ""
    /\ scriptPending = TRUE
    /\ timerArmed = TRUE
    /\ calls = <<>>
    /\ chatCalls = 0
    /\ submissions = 0
    /\ outcome = "none"
    /\ response = JUndefined
    /\ extracted = <<>>

scriptVars == << scriptStatus, puterRef, scriptPending, timerArmed >>
harnessVars == << response, extracted >>
historyVars == << chatCalls, submissions, outcome >>

\* The setTimeout callback (l.45-50).  The effect runs once, so the
\* scriptStatus its closure reads is the first render's.
CapturedScriptStatus == "loading"
LoadTimeout ==
    /\ timerArmed
    /\ timerArmed' = FALSE
    /\ IF CapturedScriptStatus = "loading"
       THEN scriptStatus' = "error" /\ errorMessage' = TimeoutError
       ELSE UNCHANGED << scriptStatus, errorMessage >>
    /\ UNCHANGED << puterRef, scriptPending, messages, isLoading, prompt, calls,
                    historyVars, harnessVars >>

\* script.onload (l.52-72), with window.puter as the script left it.
ScriptOnload(windowPuter) ==
    /\ scriptPending
    /\ scriptPending' = FALSE
    /\ timerArmed' = FALSE
    /\ IF windowPuter # "absent"
       THEN /\ scriptStatus' = "loaded"
            /\ puterRef' = windowPuter
            /\ messages' = << WelcomeMessage >>
            /\ UNCHANGED errorMessage
       ELSE /\ scriptStatus' = "error"
            /\ errorMessage' = NoPuterError
            /\ UNCHANGED << puterRef, messages >>
    /\ UNCHANGED << isLoading, prompt, calls, historyVars, harnessVars >>

\* script.onerror (l.74-78)
ScriptOnerror ==
    /\ scriptPending
    /\ scriptPending' = FALSE
    /\ timerArmed' = FALSE
    /\ scriptStatus' = "error"
    /\ errorMessage' = LoadError
    /\ UNCHANGED << puterRef, messages, isLoading, prompt, calls, historyVars,
                    harnessVars >>

\* The textarea's onChange (l.413).  Whether the Textarea component honours
\* disabled={isLoading} (l.421) is decided outside this file, so text may
\* arrive in every state; handleSubmit's own guard is what the file gives.
OnChange(text) ==
    /\ prompt' = text
    /\ UNCHANGED << scriptVars, errorMessage, messages, isLoading, calls,
                    historyVars, harnessVars >>

UserMessage(p) == [role |-> "user", content |-> JStr(p)]
AssistantMessage(text) == [role |-> "assistant", content |-> text]

\* The guard of handleSubmit without its isLoading test
SubmitRejectedBlankOnly == Trim(prompt) = ""

\* l.252: the guard of handleSubmit
SubmitRejected == Trim(prompt) = "" \/ isLoading

\* l.267: the live gateway is tried
UsesPuter == scriptStatus = "loaded" /\ HasAi(puterRef)

\* The catch block answering with the apology of l.294 instead of the mock
OnPuterErrorApology(currentPrompt) ==
    JStr("Sorry, there was an error processing your request. Please try again.")

\* l.270-274: the catch block around callPuterChat
OnPuterError(currentPrompt) == getMockResponse(currentPrompt)

\* handleSubmit (l.251-300), up to its await or, when nothing is awaited,
\* to its end.  It reads prompt, isLoading and scriptStatus as of the latest
\* render; React renders between two events, so these are the current
\* values.  A suspended invocation is kept in calls with its currentPrompt,
\* what it awaits, and the conversation's length when it was accepted.
\* Nothing in the outer try throws (getMockResponse is total, and
\* callPuterChat is awaited inside the inner try), so the catch of
\* l.286-296 takes no step.
HandleSubmit ==
    IF SubmitRejected
    THEN /\ outcome' = IF isLoading THEN "ignored" ELSE outcome
         /\ UNCHANGED << scriptVars, errorMessage, messages, isLoading, prompt,
                         calls, chatCalls, submissions, harnessVars >>
    ELSE /\ Len(messages) + 2 <= MaxMessages
         /\ errorMessage' = JNull
         /\ prompt' = ""
         /\ submissions' = submissions + 1
         /\ IF UsesPuter
            THEN LET started == callPuterChat(puterRef)
                 IN  /\ isLoading' = TRUE
                     /\ messages' = Append(messages, UserMessage(prompt))
                     /\ calls' = Append(calls,
                                        [currentPrompt |-> prompt,
                                         kind |-> started.kind,
                                         value |-> started.value,
                                         base |-> Len(messages)])
                     /\ chatCalls' = IF started.kind = "awaitsChat"
                                     THEN chatCalls + 1 ELSE chatCalls
                     /\ outcome' = "sending"
            ELSE /\ isLoading' = FALSE
                 /\ messages' = messages \o
                        << UserMessage(prompt),
                           AssistantMessage(getMockResponse(prompt)) >>
                 /\ outcome' = "unavailable"
                 /\ UNCHANGED << calls, chatCalls >>
         /\ UNCHANGED << scriptVars, harnessVars >>

RemoveAt(seq, n) == SubSeq(seq, 1, n - 1) \o SubSeq(seq, n + 1, Len(seq))

\* Finish without the finally block of l.297-299
FinishStillLoading(n, responseText, how) ==
    /\ messages' = Append(messages, AssistantMessage(responseText))
    /\ calls' = RemoveAt(calls, n)
    /\ outcome' = how
    /\ UNCHANGED << scriptVars, errorMessage, isLoading, prompt, chatCalls,
                    submissions, harnessVars >>

\* Finish with the failure of the Adapter call put in the banner
FinishReportingError(n, responseText, how) ==
    /\ messages' = Append(messages, AssistantMessage(responseText))
    /\ isLoading' = FALSE
    /\ calls' = RemoveAt(calls, n)
    /\ outcome' = how
    /\ errorMessage' = IF how = "threw" THEN JStr("Error calling Puter.js")
                       ELSE errorMessage
    /\ UNCHANGED << scriptVars, prompt, chatCalls, submissions, harnessVars >>

\* handleSubmit resumes with responseText (l.280-285, 297-299).
Finish(n, responseText, how) ==
    /\ messages' = Append(messages, AssistantMessage(responseText))
    /\ isLoading' = FALSE
    /\ calls' = RemoveAt(calls, n)
    /\ outcome' = how
    /\ UNCHANGED << scriptVars, errorMessage, prompt, chatCalls, submissions,
                    harnessVars >>

\* puter.ai.chat resolves with reply (l.224-231, 269).
ChatResolves(n, reply) ==
    /\ calls[n].kind = "awaitsChat"
    /\ Finish(n, extractTextFromResponse(reply), "delivered")

\* puter.ai.chat rejects: callPuterChat rethrows (l.232-235) and
\* handleSubmit falls back (l.270-274).
ChatThrows(n) ==
    /\ calls[n].kind = "awaitsChat"
    /\ Finish(n, OnPuterError(calls[n].currentPrompt), "threw")

\* callPuterChat ended without calling the gateway; handleSubmit resumes
\* with what it returned or threw.
CallSettles(n) ==
    /\ calls[n].kind \in {"returns", "throws"}
    /\ IF calls[n].kind = "returns"
       THEN Finish(n, calls[n].value, "delivered")
       ELSE Finish(n, OnPuterError(calls[n].currentPrompt), "threw")

Next ==
    \/ LoadTimeout
    \/ \E windowPuter \in WindowPuter : ScriptOnload(windowPuter)
    \/ ScriptOnerror
    \/ \E text \in Prompts : OnChange(text)
    \/ HandleSubmit
    \/ \E n \in 1..Len(calls) : \E reply \in GatewayReplies : ChatResolves(n, reply)
    \/ \E n \in 1..Len(calls) : ChatThrows(n)
    \/ \E n \in 1..Len(calls) : CallSettles(n)

\* The remote call resolves or throws.
ChatSettles ==
    \E n \in 1..Len(calls) :
        ChatThrows(n) \/ \E reply \in GatewayReplies : ChatResolves(n, reply)

Spec == Init /\ [][Next]_vars

\* The event loop runs a settled promise's continuation, and the remote
\* call is assumed to settle.
FairSpec ==
    /\ Spec
    /\ WF_vars(ChatSettles)
    /\ WF_vars(\E n \in 1..Len(calls) : CallSettles(n))

-----------------------------------------------------------------------------
(* The normalizer on its own: a raw reply is drawn from RawReplies,        *)
(* extractTextFromResponse is applied to it, and then once more to the     *)
(* result when the result is a string.                                     *)

\* Sequences over S of length at most n
SeqsUpTo(S, n) == UNION { [1..k -> S] : k \in 0..n }

Leaves == { JNull, JStr(""), JStr("a"), JNum("0"), JNum("5"), JBool(FALSE) }
TextObjects ==
    { JObj(<<"text">>, <<v>>) : v \in Leaves \cup {JStr("{\"text\":\"b\"}")} }
        \cup { JObj(<<>>, <<>>), JObj(<<"a">>, <<JNum("1")>>) }
ItemValues ==
    { JObj(<<"text">>, <<JStr("a")>>), JObj(<<"text">>, <<JStr("")>>),
      JObj(<<"text">>, <<JNum("5")>>), JObj(<<"a">>, <<JNum("1")>>), JNull }
ArrayValues == { JArr(elems) : elems \in SeqsUpTo(ItemValues, MaxItems) }
ContentValues == Leaves \cup TextObjects \cup ArrayValues
MessageValues ==
    { JObj(<<"content">>, <<c>>) : c \in ContentValues } \cup { JNull, JStr("m") }

Absent == JUndefined
\* The object with the given text, content and message properties; a
\* property whose value is Absent is not set.
MakeObject(text, content, message) ==
    LET t == IF text = Absent THEN [keys |-> <<>>, items |-> <<>>]
             ELSE SetProp(<<>>, <<>>, "text", text)
        c == IF content = Absent THEN t
             ELSE SetProp(t.keys, t.items, "content", content)
        m == IF message = Absent THEN c
             ELSE SetProp(c.keys, c.items, "message", message)
    IN  JObj(m.keys, m.items)

ObjectReplies ==
    { MakeObject(text, content, message) :
        text \in Leaves \cup {Absent},
        content \in (Leaves \cup TextObjects) \cup {Absent},
        message \in MessageValues \cup {Absent} }
CustomReplies ==
    { JCustom(o.keys, o.items, str) :
        o \in { JObj(<<>>, <<>>), JObj(<<"text">>, <<JStr("a")>>),
                JObj(<<"text">>, <<JStr("")>>), JObj(<<"a">>, <<JNum("1")>>) },
        str \in { "custom", "", "[object Object]" } }
PrimitiveReplies ==
    { JUndefined, JNull, JNum("0"), JNum("5"), JBool(FALSE), JBool(TRUE) }
StringReplies ==
    { JStr(str) : str \in { "", "a", "hello {", "5", "null", " [ ] ",
                            "\"a\"", "\"\\\"a\\\"\"", "{\"text\": \"x\"}",
                            "[{\"text\":\"a\"}, {\"text\":\"b\"}]" } }
        \cup { JStr(Stringify(v)) : v \in TextObjects \cup ArrayValues }

RawReplies ==
    ObjectReplies \cup CustomReplies \cup PrimitiveReplies \cup StringReplies
        \cup ArrayValues

mainVars == << scriptStatus, errorMessage, puterRef, messages, isLoading, prompt,
               scriptPending, timerArmed, calls, chatCalls, submissions,
               outcome >>

InitNormalize ==
    /\ response \in RawReplies
    /\ extracted = <<>>
    /\ scriptStatus = "loading"
    /\ errorMessage = JNull
    /\ puterRef = "null"
    /\ messages = <<>>
    /\ isLoading = FALSE
    /\ prompt = ""
    /\ scriptPending = TRUE
    /\ timerArmed = TRUE
    /\ calls = <<>>
    /\ chatCalls = 0
    /\ submissions = 0
    /\ outcome = "none"

\* extractTextFromResponse(response)
Normalize ==
    /\ extracted = <<>>
    /\ extracted' = << extractTextFromResponse(response) >>
    /\ UNCHANGED << response, mainVars >>

\* The result is handed back to extractTextFromResponse as a plain string.
Renormalize ==
    /\ Len(extracted) = 1
    /\ TypeOf(extracted[1]) = "string"
    /\ extracted' = Append(extracted, extractTextFromResponse(extracted[1]))
    /\ UNCHANGED << response, mainVars >>

NextNormalize == Normalize \/ Renormalize

NormalizeSpec == InitNormalize /\ [][NextNormalize]_vars

-----------------------------------------------------------------------------
(* Properties of the orchestrator, checked under Spec and FairSpec.        *)

Last(seq) == seq[Len(seq)]
IsPrefix(a, b) == Len(a) <= Len(b) /\ SubSeq(b, 1, Len(a)) = a

\* C1: at most one submission is in flight at any time.  While one is
\* (isLoading), no step accepts a submission or issues an Adapter call, the
\* conversation changes only by the in-flight submission appending its
\* assistant message, and a submit event that arrives then (outcome becomes
\* "ignored") changes nothing else.
C1_AtMostOneInFlight ==
    /\ [](Len(calls) <= 1 /\ (isLoading <=> Len(calls) = 1))
    /\ [][isLoading =>
            /\ submissions' = submissions
            /\ chatCalls' = chatCalls
            /\ \/ messages' = messages
               \/ /\ ~isLoading'
                  /\ calls' = <<>>
                  /\ Len(messages') = Len(messages) + 1
                  /\ IsPrefix(messages, messages')
                  /\ Last(messages').role = "assistant"
            /\ (outcome' = "ignored" /\ outcome # "ignored" =>
                    /\ messages' = messages
                    /\ calls' = calls
                    /\ isLoading'
                    /\ prompt' = prompt
                    /\ errorMessage' = errorMessage)]_vars

\* C1 witness: a submit event with a non-blank prompt arrived while a chat
\* call was in flight, and was ignored.
C1_Witness ==
    /\ isLoading
    /\ outcome = "ignored"
    /\ Trim(prompt) # ""
    /\ Len(calls) = 1
    /\ calls[1].kind = "awaitsChat"

\* C2: the Message sequence is append-only: every step leaves the previous
\* sequence as a prefix of the new one.
C2_AppendOnly == [][IsPrefix(messages, messages')]_vars

\* C3: Gateway Availability leaves pending (scriptStatus "loading") once and
\* never changes afterwards.
C3_AvailabilitySettlesOnce ==
    [][scriptStatus # "loading" => scriptStatus' = scriptStatus]_vars

\* C4: an accepted submission that falls back grows the conversation by
\* exactly two, the user Message with the prompt followed by the assistant
\* Message mock(prompt): in one step and without an Adapter call when
\* Gateway Availability is failed, and on top of the conversation as it was
\* at acceptance when the Adapter call throws.
C4_FallbackGrowsByTwo ==
    [][/\ (submissions' = submissions + 1 /\ scriptStatus = "error" =>
              /\ messages' = messages \o
                    << UserMessage(prompt),
                       AssistantMessage(getMockResponse(prompt)) >>
              /\ chatCalls' = chatCalls
              /\ calls' = calls
              /\ outcome' = "unavailable")
       /\ (outcome' = "threw" /\ isLoading /\ ~isLoading' =>
              \E n \in 1..Len(calls) :
                  /\ calls' = RemoveAt(calls, n)
                  /\ Len(messages') = calls[n].base + 2
                  /\ messages' = SubSeq(messages, 1, calls[n].base) \o
                        << UserMessage(calls[n].currentPrompt),
                           AssistantMessage(
                               getMockResponse(calls[n].currentPrompt)) >>)]_vars

\* C4 witness: the Adapter call of a submission threw, and the conversation
\* ends with its user Message and the mock reply.
C4_Witness ==
    /\ outcome = "threw"
    /\ chatCalls >= 1
    /\ Len(messages) >= 3
    /\ messages[Len(messages) - 1].role = "user"
    /\ Last(messages) =
          AssistantMessage(getMockResponse(messages[Len(messages) - 1].content.s))

\* C5: every accepted submission ends: a submission that is Sending
\* eventually returns to Idle (the loading flag is cleared), and the step
\* that clears the flag appends that submission's assistant Message; a
\* submission that awaits nothing ends within the step that accepts it.
C5_SubmissionEnds ==
    /\ isLoading ~> ~isLoading
    /\ [][/\ (isLoading /\ ~isLoading' =>
                /\ Len(messages') = Len(messages) + 1
                /\ IsPrefix(messages, messages')
                /\ Last(messages').role = "assistant"
                /\ Last(messages).role = "user")
          /\ (submissions' = submissions + 1 /\ ~isLoading' =>
                /\ Len(messages') = Len(messages) + 2
                /\ Last(messages').role = "assistant")]_vars

\* C5 witness: a submission went through Sending and ended Delivered.
C5_Witness ==
    /\ outcome = "delivered"
    /\ ~isLoading
    /\ chatCalls >= 1
    /\ Last(messages).role = "assistant"

\* C6: a prompt submitted while the script is loaded and the handle lacks
\* its AI sub-capability, or its chat operation, is answered with the
\* corresponding advisory string.  (Once loaded, the conversation starts
\* with the welcome message, so a last message of role assistant answers a
\* prompt submitted after the load.)
C6_ShapeMismatchAdvisory ==
    (scriptStatus = "loaded" /\ Len(messages) > 0
        /\ Last(messages).role = "assistant") =>
        /\ (puterRef = "noAi" => Last(messages).content = JStr(AdvisoryNoAi))
        /\ (puterRef = "noChat" => Last(messages).content = JStr(AdvisoryNoChat))

\* C7: every Message has non-empty string content.
C7_NonEmptyContent ==
    \A n \in 1..Len(messages) :
        /\ TypeOf(messages[n].content) = "string"
        /\ messages[n].content.s # ""

\* C9 as stated: after a submission whose Adapter call throws the last-error
\* string is set, and a set last-error string is cleared only by a
\* submission that is Delivered.
C9_ErrorSetByThrow ==
    /\ [](outcome = "threw" => errorMessage # JNull)
    /\ [][errorMessage # JNull /\ errorMessage' = JNull =>
            outcome' = "delivered"]_vars

\* C9 amended: the last-error string is set by load failures only (each
\* leaves the script status "error"); every accepted submission clears it
\* at once, whatever its end; and after a submission whose Adapter call
\* threw it is still cleared.
C9_ErrorFromLoadOnly ==
    /\ [](outcome \in {"sending", "threw"} => errorMessage = JNull)
    /\ [][/\ (submissions' = submissions + 1 => errorMessage' = JNull)
          /\ (errorMessage' # errorMessage =>
                \/ submissions' = submissions + 1
                \/ /\ errorMessage' \in {TimeoutError, NoPuterError, LoadError}
                   /\ scriptStatus' = "error"
                   /\ submissions' = submissions)]_vars

\* C9 witness: a load failure set the banner, a later submission was
\* accepted, its Adapter call threw, and the banner is empty.
C9_Witness ==
    /\ outcome = "threw"
    /\ chatCalls >= 1
    /\ errorMessage = JNull
    /\ ~timerArmed /\ ~scriptPending /\ scriptStatus = "loaded"

-----------------------------------------------------------------------------
(* Properties of the normalizer, checked under NormalizeSpec.              *)

\* str is JSON text that extractTextFromResponse unwraps: an array, or an
\* object with a text property.
UnwrapsAsJSON(str) ==
    LET parsed == JSONParse(str)
    IN  /\ parsed.ok
        /\ \/ IsArray(parsed.v)
           \/ parsed.v.t = "object" /\ HasProp(parsed.v, "text")

\* C8 as stated: handing the normalizer's result back to it as a plain
\* string returns the result unchanged.
C8_Idempotent == Len(extracted) = 2 => extracted[2] = extracted[1]

\* C8 amended: the normalizer returns its own result unchanged whenever
\* that result is a string that is not the JSON text of an array or of an
\* object with a text property.
C8_IdempotentOnPlainText ==
    (Len(extracted) = 2 /\ ~UnwrapsAsJSON(extracted[1].s)) =>
        extracted[2] = extracted[1]

\* C8 witness: an object reply was serialized to JSON text, that text was
\* normalized again, parsed as an object without text, and came back as is.
C8_Witness ==
    /\ Len(extracted) = 2
    /\ response.t = "object"
    /\ JSONParse(extracted[1].s).ok
    /\ JSONParse(extracted[1].s).v.t = "object"
    /\ ~UnwrapsAsJSON(extracted[1].s)
    /\ extracted[2] = extracted[1]

\* The cascade of l.149-192, rule by rule.
MessageContentOf(resp) == OptGet(Get(resp, "message"), "content")
RuleResult(resp, rule) ==
    CASE rule = 1 -> Get(MessageContentOf(resp), "text")
      [] rule = 2 -> Get(resp, "text")
      [] rule = 3 ->
            IF Get(resp, "content").t = "string" THEN Get(resp, "content")
            ELSE JStr(Stringify(Get(resp, "content")))
      [] rule = 4 ->
            IF MessageContentOf(resp).t = "string" THEN MessageContentOf(resp)
            ELSE IF MessageContentOf(resp).t = "array"
                 THEN ExtractItems(MessageContentOf(resp).items)
            ELSE JStr(Stringify(MessageContentOf(resp)))
      [] rule = 5 -> JStr(ToStringJS(resp))
      [] OTHER -> JStr(Stringify(resp))

CustomConversion(resp) ==
    resp.t \in {"number", "boolean", "custom"} /\ ToStringJS(resp) # "[object Object]"

\* The first rule whose field is present
FirstPresentRule(resp) ==
    CASE HasProp(MessageContentOf(resp), "text") -> 1
      [] HasProp(resp, "text") -> 2
      [] HasProp(resp, "content") -> 3
      [] HasProp(Get(resp, "message"), "content") -> 4
      [] CustomConversion(resp) -> 5
      [] OTHER -> 6

\* The first rule whose field holds a truthy value
FirstTruthyRule(resp) ==
    CASE Truthy(OptGet(MessageContentOf(resp), "text")) -> 1
      [] Truthy(Get(resp, "text")) -> 2
      [] Truthy(Get(resp, "content")) -> 3
      [] Truthy(MessageContentOf(resp)) -> 4
      [] CustomConversion(resp) -> 5
      [] OTHER -> 6

\* C10 as stated, for the replies that are truthy: for a reply that is not
\* a string and not a sequence, the normalizer returns the result of the
\* first rule whose field is present.
C10_FirstPresentRule ==
    (Len(extracted) >= 1 /\ Truthy(response)
        /\ response.t \notin {"string", "array"})
        => extracted[1] = RuleResult(response, FirstPresentRule(response))

\* C10 amended: for a reply that is truthy, not a string and not a sequence,
\* the normalizer returns the result of the first rule whose field holds a
\* truthy value; a field that is present but holds "", 0, false or null does
\* not select its rule.
C10_FirstTruthyRule ==
    (Len(extracted) >= 1 /\ Truthy(response)
        /\ response.t \notin {"string", "array"})
        => extracted[1] = RuleResult(response, FirstTruthyRule(response))

\* C10 witness: the reply has an empty text field and a content field, and
\* the normalizer returned the content.
C10_Witness ==
    /\ Len(extracted) >= 1
    /\ response.t = "object"
    /\ HasProp(response, "text")
    /\ ~Truthy(Get(response, "text"))
    /\ Truthy(Get(response, "content"))
    /\ Get(response, "content").t = "string"
    /\ extracted[1] = Get(response, "content")

=============================================================================
